---- MODULE Spec2Model ----
(***************************************************************************)
(* The form-then-chat session of main.py as a state machine.               *)
(*                                                                         *)
(* The Streamlit host re-executes the whole script on every interaction    *)
(* and keeps st.session_state between executions.  One action of the model *)
(* is one execution of the script: the widget that triggered it is the     *)
(* action's input, the outcome of the remote calls is drawn with \E.       *)
(*                                                                         *)
(* Text is modelled as TLA+ strings and built by concatenation as the code *)
(* builds it.  The free text of the challenges field is kept as a sequence *)
(* of one-character strings, so that str.strip() is computed and not       *)
(* assumed.                                                                *)
(***************************************************************************)
EXTENDS Integers, Sequences, FiniteSets, TLC

VARIABLES
    session_state,    \* st.session_state: the six keys of lines 90-96
    widgets,          \* the widgets the last execution rendered
    rerun_requested,  \* the last execution ended in st.rerun()
    error,            \* the st.error the last execution showed ("none" if none)
    acquisitions,     \* number of Groq clients constructed so far
    event,            \* history: what the last execution did, sent and rendered
    submitted         \* history: the values of the last form submission

vars == <<session_state, widgets, rerun_requested, error, acquisitions, event, submitted>>

----------------------------------------------------------------------------
(* Bounds of the model *)

\* the form offers the first NumAgeChoices entries of age_options
NumAgeChoices == 2
\* the form offers the first NumTraitChoices entries of temperament_options
NumTraitChoices == 1
\* the challenges text has at most MaxChallengeLen characters
MaxChallengeLen == 2
\* at most MaxTurns chat inputs are submitted in one session
MaxTurns == 2
\* at most MaxAcquisitions clients are constructed in one run of the model
MaxAcquisitions == 2

----------------------------------------------------------------------------
(* Values *)

\* Python's None, for child_age and for the return value of get_groq_response
None == "None"

\* session_state.client is None
NoClient == 0

Min(a, b) == IF a < b THEN a ELSE b

age_options ==
    << "Not specified", "Newborn (0-3 months)", "Infant (3-12 months)",
       "Toddler (1-3 years)", "Preschooler (3-5 years)",
       "School-Age (6-12 years)", "Teenager (13+ years)" >>

temperament_options ==
    << "Easygoing / Adaptable", "Active / Energetic", "Shy / Cautious",
       "Intense / Sensitive", "Distractible", "Persistent / Strong-willed" >>

\* str.lower() on the strings it is applied to (lines 173 and 175)
Lower(s) ==
    CASE s = "Not specified"              -> "not specified"
      [] s = "Newborn (0-3 months)"       -> "newborn (0-3 months)"
      [] s = "Infant (3-12 months)"       -> "infant (3-12 months)"
      [] s = "Toddler (1-3 years)"        -> "toddler (1-3 years)"
      [] s = "Preschooler (3-5 years)"    -> "preschooler (3-5 years)"
      [] s = "School-Age (6-12 years)"    -> "school-age (6-12 years)"
      [] s = "Teenager (13+ years)"       -> "teenager (13+ years)"
      [] s = "Easygoing / Adaptable"      -> "easygoing / adaptable"
      [] s = "Active / Energetic"         -> "active / energetic"
      [] s = "Shy / Cautious"             -> "shy / cautious"
      [] s = "Intense / Sensitive"        -> "intense / sensitive"
      [] s = "Distractible"               -> "distractible"
      [] s = "Persistent / Strong-willed" -> "persistent / strong-willed"
      [] OTHER                            -> s

\* the characters a challenges text is made of
Chars == {" ", "x"}

IsSpace(c) == c \in {" ", "\t", "\n"}

\* a sequence of one-character strings as one string
RECURSIVE Str(_)
Str(cs) == IF cs = <<>> THEN "" ELSE Head(cs) \o Str(Tail(cs))

RECURSIVE LStrip(_)
LStrip(cs) ==
    IF cs # <<>> /\ IsSpace(Head(cs)) THEN LStrip(Tail(cs)) ELSE cs

RECURSIVE RStrip(_)
RStrip(cs) ==
    IF cs # <<>> /\ IsSpace(cs[Len(cs)])
    THEN RStrip(SubSeq(cs, 1, Len(cs) - 1))
    ELSE cs

\* str.strip()
Strip(cs) == RStrip(LStrip(cs))

\* sep.join(parts)
RECURSIVE Join(_, _)
Join(parts, sep) ==
    IF parts = <<>> THEN ""
    ELSE IF Len(parts) = 1 THEN parts[1]
    ELSE parts[1] \o sep \o Join(Tail(parts), sep)

RECURSIVE MapLower(_)
MapLower(parts) ==
    IF parts = <<>> THEN <<>> ELSE <<Lower(Head(parts))>> \o MapLower(Tail(parts))

Message(role, content) == [role |-> role, content |-> content]

----------------------------------------------------------------------------
(* Helper functions of the script *)

\* lines 53-59: the fixed sentences every prompt starts with
PersonaSentences ==
    << "You are a helpful, empathetic, and knowledgeable AI assistant specializing in providing personalized parenting tips and advice.",
       "Your tone should be supportive, understanding, and non-judgmental.",
       "Focus on practical, actionable suggestions and positive reinforcement techniques.",
       "Avoid overly technical jargon unless explaining a specific concept clearly.",
       "Respond concisely but thoroughly to user questions about parenting challenges and strategies." >>

\* line 63
AgeSentence(child_age_range) ==
    "The user is specifically asking for advice related to a child in the "
    \o child_age_range
    \o " age range. Tailor your advice significantly based on this developmental stage."

\* line 65
FallbackAgeSentence ==
    "The user has not specified a child's age range, so provide general advice or ask for clarification if age is crucial for the specific question."

\* line 69, traits_string being the joined traits
TraitsSentence(traits_string) ==
    "The child's temperament is described as: "
    \o traits_string
    \o ". Keep these traits in mind when suggesting communication styles, activities, and discipline strategies."

\* line 72, text being the text put between the quotes
ChallengesSentence(text) ==
    "The parent mentioned they are currently focusing on or facing challenges with: '"
    \o text
    \o "'. Try to address this area proactively if relevant to the user's questions, or use it as context for your advice."

\* line 74
SafetySentence ==
    "Always prioritize safety and well-being in your advice. If a topic seems potentially serious (e.g., medical issues, severe behavioral problems), gently suggest consulting a professional (pediatrician, therapist, etc.)."

\* prompt_lines with the challenges text tested and quoted as typed, without strip()
prompt_lines_raw_challenges(child_age_range, temperament_traits, current_challenges) ==
    PersonaSentences
    \o (IF child_age_range # None /\ child_age_range # "" /\ child_age_range # "Not specified"
        THEN << AgeSentence(child_age_range) >>
        ELSE << FallbackAgeSentence >>)
    \o (IF temperament_traits # <<>>
        THEN << TraitsSentence(Join(temperament_traits, ", ")) >>
        ELSE <<>>)
    \o (IF current_challenges # <<>>
        THEN << ChallengesSentence(Str(current_challenges)) >>
        ELSE <<>>)
    \o << SafetySentence >>

\* prompt_lines with the challenges text tested after strip() but quoted as typed
prompt_lines_quotes_raw(child_age_range, temperament_traits, current_challenges) ==
    PersonaSentences
    \o (IF child_age_range # None /\ child_age_range # "" /\ child_age_range # "Not specified"
        THEN << AgeSentence(child_age_range) >>
        ELSE << FallbackAgeSentence >>)
    \o (IF temperament_traits # <<>>
        THEN << TraitsSentence(Join(temperament_traits, ", ")) >>
        ELSE <<>>)
    \o (IF current_challenges # <<>> /\ Strip(current_challenges) # <<>>
        THEN << ChallengesSentence(Str(current_challenges)) >>
        ELSE <<>>)
    \o << SafetySentence >>

\* prompt_lines listing the traits in the order of temperament_options (sorted)
\* instead of the order of selection
prompt_lines_sorts_traits(child_age_range, temperament_traits, current_challenges) ==
    PersonaSentences
    \o (IF child_age_range # None /\ child_age_range # "" /\ child_age_range # "Not specified"
        THEN << AgeSentence(child_age_range) >>
        ELSE << FallbackAgeSentence >>)
    \o (IF temperament_traits # <<>>
        THEN << TraitsSentence(Join(
                   SelectSeq(temperament_options,
                             LAMBDA o : \E i \in DOMAIN temperament_traits :
                                            temperament_traits[i] = o), ", ")) >>
        ELSE <<>>)
    \o (IF current_challenges # <<>> /\ Strip(current_challenges) # <<>>
        THEN << ChallengesSentence(Str(Strip(current_challenges))) >>
        ELSE <<>>)
    \o << SafetySentence >>

\* prompt_lines without the test for the "Not specified" sentinel
prompt_lines_no_sentinel(child_age_range, temperament_traits, current_challenges) ==
    PersonaSentences
    \o (IF child_age_range # None /\ child_age_range # ""
        THEN << AgeSentence(child_age_range) >>
        ELSE << FallbackAgeSentence >>)
    \o (IF temperament_traits # <<>>
        THEN << TraitsSentence(Join(temperament_traits, ", ")) >>
        ELSE <<>>)
    \o (IF current_challenges # <<>> /\ Strip(current_challenges) # <<>>
        THEN << ChallengesSentence(Str(Strip(current_challenges))) >>
        ELSE <<>>)
    \o << SafetySentence >>

\* lines 53-74: the list prompt_lines as it stands before the join of line 76
prompt_lines(child_age_range, temperament_traits, current_challenges) ==
    PersonaSentences
    \o (IF child_age_range # None /\ child_age_range # "" /\ child_age_range # "Not specified"
        THEN << AgeSentence(child_age_range) >>
        ELSE << FallbackAgeSentence >>)
    \o (IF temperament_traits # <<>>
        THEN << TraitsSentence(Join(temperament_traits, ", ")) >>
        ELSE <<>>)
    \o (IF current_challenges # <<>> /\ Strip(current_challenges) # <<>>
        THEN << ChallengesSentence(Str(Strip(current_challenges))) >>
        ELSE <<>>)
    \o << SafetySentence >>

create_system_prompt(child_age_range, temperament_traits, current_challenges) ==
    Join(prompt_lines(child_age_range, temperament_traits, current_challenges), "\n")

\* the welcome message built without the two lower() calls
welcome_message_keeps_case(child_age, child_temperament, current_challenges) ==
    Join(<< "Hello! I'm ready to help with parenting tips" >>
         \o (IF child_age # None /\ child_age # "" /\ child_age # "Not specified"
             THEN << "for your " \o child_age >> ELSE <<>>)
         \o (IF child_temperament # <<>>
             THEN << " (described as " \o Join(child_temperament, ", ") \o ")" >> ELSE <<>>)
         \o << "." >>
         \o (IF current_challenges # <<>> /\ Strip(current_challenges) # <<>>
             THEN << " I see you're interested in '" \o Str(Strip(current_challenges)) \o "'." >>
             ELSE <<>>)
         \o << " How can I assist you today?" >>, " ")

\* the welcome message of lines 170-182
welcome_message(child_age, child_temperament, current_challenges) ==
    LET age_part ==
            IF child_age # None /\ child_age # "" /\ child_age # "Not specified"
            THEN << "for your " \o Lower(child_age) >>
            ELSE <<>>
        temperament_part ==
            IF child_temperament # <<>>
            THEN << " (described as " \o Join(MapLower(child_temperament), ", ") \o ")" >>
            ELSE <<>>
        challenges_part ==
            IF current_challenges # <<>> /\ Strip(current_challenges) # <<>>
            THEN << " I see you're interested in '" \o Str(Strip(current_challenges)) \o "'." >>
            ELSE <<>>
    IN  Join(<< "Hello! I'm ready to help with parenting tips" >>
             \o age_part \o temperament_part \o << "." >> \o challenges_part
             \o << " How can I assist you today?" >>, " ")

\* initialize_groq_client without st.stop(): a failure falls through and returns None
initialize_groq_client_no_stop(env, handle) ==
    IF ~env.key
    THEN [client |-> NoClient, stopped |-> FALSE, error |-> "no_key"]
    ELSE IF ~env.reachable
    THEN [client |-> NoClient, stopped |-> FALSE, error |-> "connect_failed"]
    ELSE [client |-> handle, stopped |-> FALSE, error |-> "none"]

\* env.key: a credential is resolvable; env.reachable: client.models.list() succeeds.
\* The result is the returned client, or stopped = TRUE when st.stop() ends the execution.
initialize_groq_client(env, handle) ==
    IF ~env.key
    THEN [client |-> NoClient, stopped |-> TRUE, error |-> "no_key"]
    ELSE IF ~env.reachable
    THEN [client |-> NoClient, stopped |-> TRUE, error |-> "connect_failed"]
    ELSE [client |-> handle, stopped |-> FALSE, error |-> "none"]

\* get_groq_response returning the error text instead of None
get_groq_response_returns_error_text(client, messages, remote) ==
    IF remote = <<>>
    THEN [value |-> "An error occurred while communicating with Groq", error |-> "completion_failed",
          requests |-> << messages >>]
    ELSE [value |-> remote[1], error |-> "none", requests |-> << messages >>]

\* get_groq_response calling the service a second time when the first call raises
get_groq_response_retries(client, messages, remote) ==
    IF remote = <<>>
    THEN [value |-> None, error |-> "completion_failed", requests |-> << messages, messages >>]
    ELSE [value |-> remote[1], error |-> "none", requests |-> << messages >>]

\* remote is <<>> when the completion call raises and <<s>> when it returns the text s.
\* The result is the returned value (None on failure), the st.error shown, and
\* requests: the message lists passed to client.chat.completions.create, one per call.
get_groq_response(client, messages, remote) ==
    IF remote = <<>>
    THEN [value |-> None, error |-> "completion_failed", requests |-> << messages >>]
    ELSE [value |-> remote[1], error |-> "none", requests |-> << messages >>]

----------------------------------------------------------------------------
(* The parts of the script *)

DefaultState ==
    [ form_completed     |-> FALSE,
      child_age          |-> None,
      child_temperament  |-> <<>>,
      current_challenges |-> <<>>,
      messages           |-> <<>>,
      client             |-> NoClient ]

\* lines 141-151: the submit handler of the form
form_submit(ss, selected_age, selected_temperaments, challenges_input) ==
    [ss EXCEPT !.child_age          = selected_age,
               !.child_temperament  = selected_temperaments,
               !.current_challenges = challenges_input,
               !.form_completed     = TRUE]

\* chat initialization building the system prompt without the challenges text
chat_initialization_drops_challenges(ss, env, handle) ==
    IF ss.client = NoClient
    THEN LET got == initialize_groq_client(env, handle) IN
         IF got.stopped
         THEN [ss |-> ss, stopped |-> TRUE, error |-> got.error, attempted |-> TRUE]
         ELSE [ss |-> [ss EXCEPT !.client = got.client,
                                 !.messages =
                                    IF ss.messages = <<>>
                                    THEN << Message("system",
                                                    create_system_prompt(ss.child_age,
                                                                         ss.child_temperament, <<>>)),
                                            Message("assistant",
                                                    welcome_message(ss.child_age,
                                                                    ss.child_temperament,
                                                                    ss.current_challenges)) >>
                                    ELSE ss.messages],
               stopped |-> FALSE, error |-> got.error, attempted |-> TRUE]
    ELSE [ss |-> ss, stopped |-> FALSE, error |-> "none", attempted |-> FALSE]

\* chat initialization storing the trimmed challenges text back into the session
chat_initialization_normalises_context(ss, env, handle) ==
    IF ss.client = NoClient
    THEN LET got == initialize_groq_client(env, handle) IN
         IF got.stopped
         THEN [ss |-> ss, stopped |-> TRUE, error |-> got.error, attempted |-> TRUE]
         ELSE [ss |-> [ss EXCEPT !.client = got.client,
                                 !.current_challenges = Strip(@),
                                 !.messages =
                                    IF ss.messages = <<>>
                                    THEN << Message("system",
                                                    create_system_prompt(ss.child_age,
                                                                         ss.child_temperament,
                                                                         ss.current_challenges)),
                                            Message("assistant",
                                                    welcome_message(ss.child_age,
                                                                    ss.child_temperament,
                                                                    ss.current_challenges)) >>
                                    ELSE ss.messages],
               stopped |-> FALSE, error |-> got.error, attempted |-> TRUE]
    ELSE [ss |-> ss, stopped |-> FALSE, error |-> "none", attempted |-> FALSE]

\* chat initialization without the "client is None" guard: every execution acquires
chat_initialization_unguarded(ss, env, handle) ==
    LET got == initialize_groq_client(env, handle) IN
    IF got.stopped
    THEN [ss |-> ss, stopped |-> TRUE, error |-> got.error, attempted |-> TRUE]
    ELSE [ss |-> [ss EXCEPT !.client = got.client,
                            !.messages =
                               IF ss.messages = <<>>
                               THEN << Message("system",
                                               create_system_prompt(ss.child_age,
                                                                    ss.child_temperament,
                                                                    ss.current_challenges)),
                                       Message("assistant",
                                               welcome_message(ss.child_age,
                                                               ss.child_temperament,
                                                               ss.current_challenges)) >>
                               ELSE ss.messages],
          stopped |-> FALSE, error |-> got.error, attempted |-> TRUE]

\* lines 157-182: client acquisition and chat history initialization
chat_initialization(ss, env, handle) ==
    IF ss.client = NoClient
    THEN LET got == initialize_groq_client(env, handle) IN
         IF got.stopped
         THEN [ss |-> ss, stopped |-> TRUE, error |-> got.error, attempted |-> TRUE]
         ELSE LET s1 == [ss EXCEPT !.client = got.client]
                  s2 == IF s1.messages = <<>>
                        THEN [s1 EXCEPT !.messages =
                                << Message("system",
                                           create_system_prompt(s1.child_age,
                                                                s1.child_temperament,
                                                                s1.current_challenges)),
                                   Message("assistant",
                                           welcome_message(s1.child_age,
                                                           s1.child_temperament,
                                                           s1.current_challenges)) >>]
                        ELSE s1
              IN  [ss |-> s2, stopped |-> FALSE, error |-> got.error, attempted |-> TRUE]
    ELSE [ss |-> ss, stopped |-> FALSE, error |-> "none", attempted |-> FALSE]

\* chat input handler sending the system prompt again with every turn
chat_input_repeats_system(ss, prompt, remote) ==
    LET s1 == [ss EXCEPT !.messages = @ \o << Message("system", ss.messages[1].content),
                                             Message("user", prompt) >>]
        assistant_response == get_groq_response(s1.client, s1.messages, remote)
        replied == assistant_response.value # None /\ assistant_response.value # ""
        s2 == IF replied
              THEN [s1 EXCEPT !.messages = Append(@, Message("assistant", assistant_response.value))]
              ELSE s1
    IN  [ ss |-> s2, error |-> assistant_response.error,
          sent |-> assistant_response.requests,
          shown |-> << Message("user", prompt) >>
                    \o (IF replied THEN << Message("assistant", assistant_response.value) >>
                        ELSE <<>>) ]

\* chat input handler trimming the history to the system message and the last turn
chat_input_trims_history(ss, prompt, remote) ==
    LET s1 == [ss EXCEPT !.messages = << Head(@), Message("user", prompt) >>]
        assistant_response == get_groq_response(s1.client, s1.messages, remote)
        replied == assistant_response.value # None /\ assistant_response.value # ""
        s2 == IF replied
              THEN [s1 EXCEPT !.messages = Append(@, Message("assistant", assistant_response.value))]
              ELSE s1
    IN  [ ss |-> s2, error |-> assistant_response.error,
          sent |-> assistant_response.requests,
          shown |-> << Message("user", prompt) >>
                    \o (IF replied THEN << Message("assistant", assistant_response.value) >>
                        ELSE <<>>) ]

\* chat input handler that calls the service without appending the user message
chat_input_forgets_user(ss, prompt, remote) ==
    LET s1 == ss
        assistant_response == get_groq_response(s1.client, s1.messages, remote)
        replied == assistant_response.value # None /\ assistant_response.value # ""
        s2 == IF replied
              THEN [s1 EXCEPT !.messages = Append(@, Message("assistant", assistant_response.value))]
              ELSE s1
    IN  [ ss |-> s2, error |-> assistant_response.error,
          sent |-> assistant_response.requests,
          shown |-> << Message("user", prompt) >>
                    \o (IF replied THEN << Message("assistant", assistant_response.value) >>
                        ELSE <<>>) ]

\* lines 207-226: the handler of a chat input.  sent: the message lists passed to
\* the service; shown: the chat messages this handler renders (lines 210-211, 225-226)
chat_input(ss, prompt, remote) ==
    LET s1 == [ss EXCEPT !.messages = Append(@, Message("user", prompt))]
        assistant_response == get_groq_response(s1.client, s1.messages, remote)
        replied == assistant_response.value # None /\ assistant_response.value # ""
        s2 == IF replied
              THEN [s1 EXCEPT !.messages = Append(@, Message("assistant", assistant_response.value))]
              ELSE s1
    IN  [ ss |-> s2, error |-> assistant_response.error,
          sent |-> assistant_response.requests,
          shown |-> << Message("user", prompt) >>
                    \o (IF replied THEN << Message("assistant", assistant_response.value) >>
                        ELSE <<>>) ]

\* reset handler that does not empty the transcript
reset_keeps_messages(ss) ==
    [ss EXCEPT !.form_completed     = FALSE,
               !.child_age          = None,
               !.child_temperament  = <<>>,
               !.current_challenges = <<>>,
               !.client             = NoClient]

\* reset handler that does not clear the form answers
reset_keeps_answers(ss) ==
    [ss EXCEPT !.form_completed     = FALSE,
               !.messages           = <<>>,
               !.client             = NoClient]

\* reset handler that does not discard the client
reset_keeps_client(ss) ==
    [ss EXCEPT !.form_completed     = FALSE,
               !.child_age          = None,
               !.child_temperament  = <<>>,
               !.current_challenges = <<>>,
               !.messages           = <<>>]

\* lines 232-240: the handler of the reset button
reset(ss) ==
    [ss EXCEPT !.form_completed     = FALSE,
               !.child_age          = None,
               !.child_temperament  = <<>>,
               !.current_challenges = <<>>,
               !.messages           = <<>>,
               !.client             = NoClient]

----------------------------------------------------------------------------
(* One execution of the script *)

\* the history loop without the role test
display_messages_unfiltered(messages) == messages

\* lines 199-202: the chat messages the history loop renders
display_messages(messages) == SelectSeq(messages, LAMBDA message : message["role"] # "system")

NoInput == [kind |-> "none", age |-> None, traits |-> <<>>, challenges |-> <<>>, prompt |-> ""]

\* lines 155-240: the chat branch, taken when form_completed is set
chat_branch(ss, input, env, handle, remote) ==
    LET init == chat_initialization(ss, env, handle) IN
    IF init.stopped
    THEN [ ss |-> init.ss, widgets |-> {}, rerun |-> FALSE, error |-> init.error,
           kind |-> "acquire_failed", acquired |-> FALSE, sent |-> <<>>, rendered |-> <<>> ]
    ELSE LET s1 == init.ss
             has_client == s1.client # NoClient
             prompted == has_client /\ input.kind = "prompt"
             history == IF has_client THEN display_messages(s1.messages) ELSE <<>>
             turn == IF prompted
                     THEN chat_input(s1, input.prompt, remote)
                     ELSE [ ss |-> s1,
                            error |-> IF has_client THEN "none" ELSE "not_initialized",
                            sent |-> <<>>, shown |-> <<>> ]
             clicked == input.kind = "reset"
             s3 == IF clicked THEN reset(turn.ss) ELSE turn.ss
         IN  [ ss |-> s3,
               widgets |-> (IF has_client THEN {"chat_input"} ELSE {}) \cup {"reset"},
               rerun |-> clicked,
               error |-> turn.error,
               kind |-> IF clicked THEN "reset"
                        ELSE IF prompted THEN "turn"
                        ELSE IF init.attempted /\ ~has_client THEN "acquire_failed"
                        ELSE IF init.attempted THEN "acquired"
                        ELSE "rerun",
               acquired |-> init.attempted /\ has_client,
               sent |-> turn.sent,
               rendered |-> history \o turn.shown ]

\* lines 101-151: the form branch, taken while form_completed is not set
form_branch(ss, input) ==
    IF input.kind = "submit"
    THEN [ ss |-> form_submit(ss, input.age, input.traits, input.challenges),
           widgets |-> {"form"}, rerun |-> TRUE, error |-> "none",
           kind |-> "submit", acquired |-> FALSE, sent |-> <<>>, rendered |-> <<>> ]
    ELSE [ ss |-> ss, widgets |-> {"form"}, rerun |-> FALSE, error |-> "none",
           kind |-> "form", acquired |-> FALSE, sent |-> <<>>, rendered |-> <<>> ]

\* lines 98-240
script(ss, input, env, handle, remote) ==
    IF ~ss.form_completed
    THEN form_branch(ss, input)
    ELSE chat_branch(ss, input, env, handle, remote)

----------------------------------------------------------------------------
(* Inputs *)

AgeChoices == { age_options[i] : i \in 1..Min(NumAgeChoices, Len(age_options)) }

TraitChoices ==
    { temperament_options[i] : i \in 1..Min(NumTraitChoices, Len(temperament_options)) }

\* st.multiselect returns the selected options, each once, in selection order
TraitSelections ==
    { s \in UNION { [1..n -> TraitChoices] : n \in 0..Cardinality(TraitChoices) } :
        \A i, j \in 1..Len(s) : i # j => s[i] # s[j] }

ChallengeTexts == UNION { [1..n -> Chars] : n \in 0..MaxChallengeLen }

\* st.chat_input returns a non-empty string when the user submits
Prompts == { "How do I handle tantrums?", "And bedtime?" }

\* what the completion call does: raises (<<>>) or returns a string (<<s>>)
Remotes == { <<>>, <<"">>, <<"Try staying calm...">> }

\* the environment of initialize_groq_client: no credential; a credential and a
\* failing probe; a credential and a reachable service
Envs ==
    { [key |-> FALSE, reachable |-> FALSE],
      [key |-> TRUE,  reachable |-> FALSE],
      [key |-> TRUE,  reachable |-> TRUE] }

RECURSIVE CountRole(_, _)
CountRole(msgs, role) ==
    IF msgs = <<>> THEN 0
    ELSE (IF Head(msgs).role = role THEN 1 ELSE 0) + CountRole(Tail(msgs), role)

----------------------------------------------------------------------------
(* The state machine *)

\* nothing has been executed yet
StartEvent == [kind |-> "start", prompt |-> "", reply |-> <<>>, sent |-> <<>>, rendered |-> <<>>]

Init ==
    /\ session_state = DefaultState
    /\ widgets = {"form"}
    /\ rerun_requested = FALSE
    /\ error = "none"
    /\ acquisitions = 0
    /\ event = StartEvent
    /\ submitted = <<None, <<>>, <<>>>>

\* the script is executed with the given input and remote outcomes
Execute(input, env, remote) ==
    \E r \in {script(session_state, input, env, acquisitions + 1, remote)} :
    /\ r.acquired => acquisitions < MaxAcquisitions
    /\ session_state' = r.ss
    /\ widgets' = r.widgets
    /\ rerun_requested' = r.rerun
    /\ error' = r.error
    /\ acquisitions' = IF r.acquired THEN acquisitions + 1 ELSE acquisitions
    /\ event' = [ kind   |-> r.kind,
                  prompt |-> IF r.kind = "turn" THEN input.prompt ELSE "",
                  reply  |-> IF r.kind = "turn" THEN remote ELSE <<>>,
                  sent     |-> r.sent,
                  rendered |-> r.rendered ]
    /\ submitted' = IF r.kind = "submit" THEN <<input.age, input.traits, input.challenges>>
                    ELSE IF r.kind = "reset" THEN <<None, <<>>, <<>>>>
                    ELSE submitted

\* the user presses "Start Chatting"
SubmitForm ==
    /\ "form" \in widgets
    /\ ~rerun_requested
    /\ \E a \in AgeChoices, t \in TraitSelections, c \in ChallengeTexts, env \in Envs :
          Execute([NoInput EXCEPT !.kind = "submit", !.age = a, !.traits = t, !.challenges = c],
                  env, <<>>)

\* the user submits a text in the chat input
ChatInput ==
    /\ "chat_input" \in widgets
    /\ ~rerun_requested
    /\ CountRole(session_state.messages, "user") < MaxTurns
    /\ \E p \in Prompts, env \in Envs, remote \in Remotes :
          Execute([NoInput EXCEPT !.kind = "prompt", !.prompt = p], env, remote)

\* the user presses "Restart Chat / Edit Child Info"
Reset ==
    /\ "reset" \in widgets
    /\ ~rerun_requested
    /\ \E env \in Envs : Execute([NoInput EXCEPT !.kind = "reset"], env, <<>>)

\* an execution without input that finds form_completed set and no client:
\* the execution st.rerun() starts after the form, or a rerun of a stopped script
AcquireClient ==
    /\ session_state.form_completed
    /\ session_state.client = NoClient
    /\ \E env \in Envs : Execute(NoInput, env, <<>>)

\* any other execution without input: st.rerun() after a reset, or a rerun by the host
Rerun ==
    /\ ~(session_state.form_completed /\ session_state.client = NoClient)
    /\ \E env \in Envs : Execute(NoInput, env, <<>>)

Next ==
    \/ SubmitForm
    \/ ChatInput
    \/ Reset
    \/ AcquireClient
    \/ Rerun

Spec == Init /\ [][Next]_vars

----------------------------------------------------------------------------
(* Shorthands for the properties *)

transcript == session_state.messages

context ==
    << session_state.child_age, session_state.child_temperament,
       session_state.current_challenges, session_state.form_completed >>

IsPrefix(s, t) == Len(s) <= Len(t) /\ SubSeq(t, 1, Len(s)) = s

----------------------------------------------------------------------------
(* Properties *)

\* C1: in every reachable state, form_completed = FALSE implies that the
\* transcript is empty and that no client is held.
C1_FormOpenImpliesNoChat ==
    ~session_state.form_completed =>
        /\ transcript = <<>>
        /\ session_state.client = NoClient

\* a reset has run in a session that had acquired a client
C1_Witness ==
    /\ ~session_state.form_completed
    /\ event.kind = "reset"
    /\ acquisitions >= 1

\* C2: a non-empty transcript starts with a system message and holds exactly one
\* system message; the transcript becomes non-empty only in the execution that
\* acquires the client, and no execution other than a reset changes or removes
\* the first message.
C2_OneLeadingSystemMessage ==
    /\ [](transcript # <<>> =>
            /\ transcript[1].role = "system"
            /\ CountRole(transcript, "system") = 1)
    /\ [][(transcript = <<>> /\ transcript' # <<>>) => event'.kind = "acquired"]_vars
    /\ [][(transcript # <<>> /\ event'.kind # "reset") =>
            /\ transcript' # <<>>
            /\ transcript'[1] = transcript[1]]_vars

\* two turns were answered after the system message was inserted
C2_Witness ==
    /\ event.kind = "turn"
    /\ CountRole(transcript, "system") = 1
    /\ CountRole(transcript, "assistant") >= 3

\* C3: whenever form_completed is set and the transcript is non-empty, the
\* content of the first message is create_system_prompt of the three values the
\* form submission stored, also after later chat turns.
C3_SystemPromptFromSubmission ==
    (session_state.form_completed /\ transcript # <<>>) =>
        transcript[1].content =
            create_system_prompt(submitted[1], submitted[2], submitted[3])

\* a chat turn has run in a session whose form gave a non-blank challenges text
C3_Witness ==
    /\ session_state.form_completed
    /\ event.kind = "turn"
    /\ Len(transcript) >= 3
    /\ Strip(submitted[3]) # <<>>
    /\ submitted[1] # "Not specified"

\* C4: the execution that handles the reset button ends with form_completed
\* FALSE, an empty transcript, no client, and the form answers at their defaults.
C4_ResetRestoresDefaults ==
    [][event'.kind = "reset" =>
          /\ session_state'.form_completed = FALSE
          /\ session_state'.messages = <<>>
          /\ session_state'.client = NoClient
          /\ session_state'.child_age = None
          /\ session_state'.child_temperament = <<>>
          /\ session_state'.current_challenges = <<>>]_vars

\* the reset has just run and its st.rerun() is pending
C4_Witness ==
    /\ event.kind = "reset"
    /\ rerun_requested
    /\ session_state.child_age = None
    /\ acquisitions >= 2

\* C5: a chat turn whose completion call fails appends exactly the user message,
\* shows an error, and leaves the session in the chat with the same client and
\* the chat input offered again.
C5_FailedTurnKeepsUserMessage ==
    [][(event'.kind = "turn" /\ event'.reply = <<>>) =>
          /\ transcript' = Append(transcript, Message("user", event'.prompt))
          /\ error' = "completion_failed"
          /\ session_state'.client = session_state.client
          /\ session_state'.client # NoClient
          /\ session_state'.form_completed
          /\ "chat_input" \in widgets'
          /\ ~rerun_requested']_vars

\* a turn has failed: the transcript ends with the user message and an error shows
C5_Witness ==
    /\ event.kind = "turn"
    /\ event.reply = <<>>
    /\ error = "completion_failed"
    /\ transcript[Len(transcript)] = Message("user", event.prompt)

\* C6: every chat turn whose completion call returns a string, the empty string
\* included, appends the user message and then an assistant message holding the
\* returned string.
C6_ReturnedStringIsAppended ==
    [][(event'.kind = "turn" /\ event'.reply # <<>>) =>
          transcript' = transcript \o << Message("user", event'.prompt),
                                        Message("assistant", event'.reply[1]) >>]_vars

\* C7 as stated: once client acquisition has failed, the client stays unset, the
\* transcript stays empty, and no later execution submits the form, handles a
\* chat input, resets, or attempts the acquisition again.
C7_HaltedForGood ==
    /\ [](event.kind = "acquire_failed" =>
            /\ session_state.client = NoClient
            /\ transcript = <<>>)
    /\ [][event.kind = "acquire_failed" =>
            event'.kind \notin {"submit", "turn", "reset", "acquired", "acquire_failed"}]_vars

\* C7 as amended: an execution whose client acquisition fails ends with no client,
\* an empty transcript, an error shown and no widget rendered, so that no form
\* submission, chat input or reset can follow; the only execution that can follow
\* is one without input, and it attempts the acquisition again.
C7_HaltedUntilRerun ==
    /\ [](event.kind = "acquire_failed" =>
            /\ session_state.client = NoClient
            /\ transcript = <<>>
            /\ session_state.form_completed
            /\ widgets = {}
            /\ ~rerun_requested
            /\ error \in {"no_key", "connect_failed"})
    /\ [][event.kind = "acquire_failed" =>
            event'.kind \in {"acquired", "acquire_failed"}]_vars

\* the probe failed although a credential was found: the execution was stopped
C7_Witness ==
    /\ event.kind = "acquire_failed"
    /\ error = "connect_failed"
    /\ widgets = {}

\* C8: every execution other than the one handling a reset leaves the old
\* transcript as a prefix of the new one.
C8_TranscriptAppendOnly ==
    [][event'.kind # "reset" => IsPrefix(transcript, transcript')]_vars

\* a second turn has extended a transcript that already held a turn
C8_Witness ==
    /\ event.kind = "turn"
    /\ CountRole(transcript, "user") >= 2
    /\ Len(transcript) >= 5

\* C9: the four SessionContext values change only in the execution that handles
\* the form submission, which stores the three submitted values and sets
\* form_completed, and in the one that handles the reset, which restores the four
\* defaults; client acquisition, chat turns and executions without input leave
\* them as they are.
C9_ContextWrittenBySubmitAndReset ==
    [][/\ event'.kind \notin {"submit", "reset"} => context' = context
       /\ event'.kind = "submit" =>
              context' = << submitted'[1], submitted'[2], submitted'[3], TRUE >>
       /\ event'.kind = "reset" => context' = << None, <<>>, <<>>, FALSE >>]_vars

\* the client was acquired in a session whose form answers differ from the defaults
C9_Witness ==
    /\ event.kind = "acquired"
    /\ session_state.child_temperament # <<>>
    /\ session_state.current_challenges # Strip(session_state.current_challenges)

\* C10: a client that is set stays the same client until a reset unsets it, and a
\* client is set only by an execution that found none.
C10_ClientAcquiredOnce ==
    /\ [][session_state.client # NoClient =>
            \/ session_state'.client = session_state.client
            \/ event'.kind = "reset" /\ session_state'.client = NoClient]_vars
    /\ [][(session_state'.client # session_state.client /\ session_state'.client # NoClient) =>
            /\ session_state.client = NoClient
            /\ event'.kind = "acquired"]_vars

\* the client of a second session is still held after a turn and a rerun
C10_Witness ==
    /\ session_state.client >= 2
    /\ event.kind = "rerun"
    /\ CountRole(transcript, "user") >= 1

----------------------------------------------------------------------------
(* create_system_prompt on its own: the inputs are drawn, the function is applied *)

\* the prompt composer is given selections of the first PromptNumTraits traits
PromptNumTraits == 2
\* and challenges texts of at most PromptMaxChallengeLen characters
PromptMaxChallengeLen == 3

\* every entry of age_options, and None (the value child_age has before the form)
PromptAges == { None } \cup { age_options[i] : i \in DOMAIN age_options }

PromptTraitChoices ==
    { temperament_options[i] : i \in 1..Min(PromptNumTraits, Len(temperament_options)) }

PromptTraitSelections ==
    { s \in UNION { [1..n -> PromptTraitChoices] : n \in 0..Cardinality(PromptTraitChoices) } :
        \A i, j \in 1..Len(s) : i # j => s[i] # s[j] }

PromptChallengeTexts == UNION { [1..n -> Chars] : n \in 0..PromptMaxChallengeLen }

\* the three arguments are held in submitted; nothing has been composed yet
InitPrompt ==
    /\ session_state = DefaultState
    /\ widgets = {}
    /\ rerun_requested = FALSE
    /\ error = "none"
    /\ acquisitions = 0
    /\ event = StartEvent
    /\ submitted \in PromptAges \X PromptTraitSelections \X PromptChallengeTexts

\* lines 163-168: create_system_prompt is called and its result becomes the first message
ComposePrompt ==
    /\ event.kind = "start"
    /\ session_state' =
          [session_state EXCEPT !.messages =
              << Message("system",
                         create_system_prompt(submitted[1], submitted[2], submitted[3])) >>]
    /\ event' = [event EXCEPT !.kind = "compose"]
    /\ UNCHANGED <<widgets, rerun_requested, error, acquisitions, submitted>>

NextPrompt == ComposePrompt

SpecPrompt == InitPrompt /\ [][NextPrompt]_vars

\* the list the composed prompt was joined from
ComposedLines == prompt_lines(submitted[1], submitted[2], submitted[3])

Composed ==
    /\ event.kind = "compose"
    /\ transcript[1].content = Join(ComposedLines, "\n")

\* the positions of the list l that hold a sentence of the set S
Positions(l, S) == { i \in DOMAIN l : l[i] \in S }

\* C12 as stated: the prompt starts with four fixed persona sentences, and for
\* "Not specified", no traits and a blank challenges text it is those four, the
\* fallback age sentence and the safety sentence, and nothing else.
C12_FourPersonaSentences ==
    event.kind = "compose" =>
        /\ SubSeq(ComposedLines, 1, 4) = SubSeq(PersonaSentences, 1, 4)
        /\ (submitted[1] = "Not specified" /\ submitted[2] = <<>> /\ Strip(submitted[3]) = <<>>) =>
              /\ Len(ComposedLines) = 4 + 2
              /\ ComposedLines[5] = FallbackAgeSentence
              /\ ComposedLines[6] = SafetySentence

\* C12 as amended: the prompt starts with the five fixed persona sentences, and
\* for "Not specified", no traits and a blank challenges text it is exactly those
\* five, the fallback age sentence and the safety sentence, joined by newlines.
C12_FivePersonaSentences ==
    event.kind = "compose" =>
        /\ Composed
        /\ Len(PersonaSentences) = 5
        /\ SubSeq(ComposedLines, 1, 5) = PersonaSentences
        /\ (submitted[1] = "Not specified" /\ submitted[2] = <<>> /\ Strip(submitted[3]) = <<>>) =>
              transcript[1].content =
                  PersonaSentences[1] \o "\n" \o PersonaSentences[2] \o "\n"
                  \o PersonaSentences[3] \o "\n" \o PersonaSentences[4] \o "\n"
                  \o PersonaSentences[5] \o "\n" \o FallbackAgeSentence \o "\n"
                  \o SafetySentence

\* Scenario B: "Not specified", no traits, two blanks as challenges text
C12_Witness ==
    /\ event.kind = "compose"
    /\ submitted = << "Not specified", <<>>, << " ", " " >> >>

\* C13: the prompt holds a challenges sentence if and only if the challenges text
\* is non-empty after strip(), and the sentence quotes the stripped text.
C13_ChallengesSentenceIffNonBlank ==
    event.kind = "compose" =>
        LET stripped == Strip(submitted[3])
            found == Positions(ComposedLines,
                               { ChallengesSentence(Str(c)) : c \in PromptChallengeTexts })
        IN  /\ Composed
            /\ found # {} <=> stripped # <<>>
            /\ Cardinality(found) <= 1
            /\ \A i \in found : ComposedLines[i] = ChallengesSentence(Str(stripped))

\* a challenges text that strip() shortens without emptying it
C13_Witness ==
    /\ event.kind = "compose"
    /\ Strip(submitted[3]) # <<>>
    /\ Strip(submitted[3]) # submitted[3]

\* C14: the prompt holds a traits sentence if and only if the traits sequence is
\* non-empty, and the sentence lists the traits in the order of the sequence,
\* separated by ", ".
C14_TraitsSentenceInInputOrder ==
    event.kind = "compose" =>
        LET traits == submitted[2]
            found == Positions(ComposedLines,
                               { TraitsSentence(Join(s, ", ")) :
                                    s \in PromptTraitSelections \ { <<>> } })
            listed == IF Len(traits) = 1 THEN traits[1]
                      ELSE IF Len(traits) = 2 THEN traits[1] \o ", " \o traits[2]
                      ELSE Join(traits, ", ")
        IN  /\ Composed
            /\ found # {} <=> traits # <<>>
            /\ Cardinality(found) <= 1
            /\ \A i \in found : ComposedLines[i] = TraitsSentence(listed)

\* two traits selected against the order of temperament_options
C14_Witness ==
    /\ event.kind = "compose"
    /\ submitted[2] = << temperament_options[2], temperament_options[1] >>

\* C15: the slot right after the persona sentences holds the age-tailoring
\* sentence if the age range is present and not "Not specified", and the fallback
\* sentence otherwise; no other slot holds either of them.
C15_AgeSentenceOrFallback ==
    event.kind = "compose" =>
        LET age == submitted[1]
            slot == Len(PersonaSentences) + 1
            tailored == Positions(ComposedLines,
                                  { AgeSentence(a) : a \in PromptAges \ { None } })
            fallback == Positions(ComposedLines, { FallbackAgeSentence })
        IN  /\ Composed
            /\ tailored # {} <=> (age # None /\ age # "Not specified")
            /\ tailored # {} => (tailored = {slot} /\ fallback = {}
                                  /\ ComposedLines[slot] = AgeSentence(age))
            /\ tailored = {} => fallback = {slot}

\* the composer was called with None as the age range
C15_Witness ==
    /\ event.kind = "compose"
    /\ submitted[1] = None
    /\ submitted[2] # <<>>

----------------------------------------------------------------------------
(* The session with the whole form: every age range, several traits, longer texts *)

FormAgeChoices == { age_options[i] : i \in DOMAIN age_options }

\* the user presses "Start Chatting" on a form filled from the wider choices
SubmitWideForm ==
    /\ "form" \in widgets
    /\ ~rerun_requested
    /\ \E a \in FormAgeChoices, t \in PromptTraitSelections, c \in PromptChallengeTexts,
          env \in Envs :
          Execute([NoInput EXCEPT !.kind = "submit", !.age = a, !.traits = t, !.challenges = c],
                  env, <<>>)

NextForm ==
    \/ SubmitWideForm
    \/ AcquireClient
    \/ Reset
    \/ Rerun

SpecForm == Init /\ [][NextForm]_vars

----------------------------------------------------------------------------
(* Properties, continued *)

\* the transcript a session started from the initial state holds on arrival in
\* the chat, for the form values v
FreshTranscript(v) ==
    chat_initialization(form_submit(DefaultState, v[1], v[2], v[3]),
                        [key |-> TRUE, reachable |-> TRUE], 1).ss.messages

\* C11: whatever happened before the last reset, the transcript a session holds
\* when its client has just been acquired is the one a session started from the
\* initial state holds for the same three form values; so two histories that end
\* in a reset and the same form submission arrive at the same transcript.
C11_NoLeakAcrossReset ==
    event.kind = "acquired" =>
        /\ transcript = FreshTranscript(submitted)
        /\ context = << submitted[1], submitted[2], submitted[3], TRUE >>

\* the client of a later session has just been acquired, after a reset
C11_Witness ==
    /\ event.kind = "acquired"
    /\ acquisitions >= 2
    /\ submitted[3] # <<>>

\* C16: an execution calls the completion service exactly once if it handles a
\* chat input and not at all otherwise, with the transcript and the new user
\* message as the request; the request of the turn that follows a failed turn
\* ends with the user message of the failed turn and then the new user message.
C16_NoAutomaticRetry ==
    [][/\ event'.kind = "turn" =>
              /\ Len(event'.sent) = 1
              /\ event'.sent[1] = Append(transcript, Message("user", event'.prompt))
       /\ event'.kind # "turn" => event'.sent = <<>>
       /\ (event.kind = "turn" /\ event.reply = <<>> /\ event'.kind = "turn") =>
              LET request == event'.sent[1]
                  n == Len(request)
              IN  /\ request[n - 1] = Message("user", event.prompt)
                  /\ request[n] = Message("user", event'.prompt)
                  /\ SubSeq(request, 1, n - 1) = transcript]_vars

\* the request of this turn carries the user message of an earlier, failed turn
C16_Witness ==
    /\ event.kind = "turn"
    /\ Len(event.sent) = 1
    /\ LET request == event.sent[1]
           n == Len(request)
       IN  /\ request[n - 1].role = "user"
           /\ request[n].role = "user"
           /\ request[n - 1].content # request[n].content

\* the expected welcome text: the clauses in their order, each with the blank
\* that separates it from the clause before it
ExpectedWelcome(age, traits, challenges) ==
    "Hello! I'm ready to help with parenting tips"
    \o (IF age # "Not specified" THEN " for your " \o Lower(age) ELSE "")
    \o (IF traits # <<>>
        THEN "  (described as "
             \o (IF Len(traits) = 1 THEN Lower(traits[1])
                 ELSE IF Len(traits) = 2 THEN Lower(traits[1]) \o ", " \o Lower(traits[2])
                 ELSE Join(MapLower(traits), ", "))
             \o ")"
        ELSE "")
    \o " ."
    \o (IF Strip(challenges) # <<>>
        THEN "  I see you're interested in '" \o Str(Strip(challenges)) \o "'."
        ELSE "")
    \o "  How can I assist you today?"

\* C17: when the client has just been acquired the transcript is the system
\* message followed by the assistant welcome message, and the welcome message is
\* the greeting, the age clause iff the age range is not "Not specified", the
\* temperament clause (lower-cased, comma-joined) iff traits were selected, the
\* period, the challenges clause (stripped text) iff the text is not blank, and
\* the closing question, in this order.
C17_WelcomeMessage ==
    event.kind = "acquired" =>
        transcript =
            << Message("system",
                       create_system_prompt(session_state.child_age,
                                            session_state.child_temperament,
                                            session_state.current_challenges)),
               Message("assistant",
                       ExpectedWelcome(session_state.child_age,
                                       session_state.child_temperament,
                                       session_state.current_challenges)) >>

\* acquired with an age range, two traits and a challenges text that strip() shortens
C17_Witness ==
    /\ event.kind = "acquired"
    /\ session_state.child_age # "Not specified"
    /\ Len(session_state.child_temperament) = 2
    /\ Strip(session_state.current_challenges) # <<>>
    /\ Strip(session_state.current_challenges) # session_state.current_challenges

\* C18: after an execution of the chat (client acquired, chat turn, rerun) the
\* rendered chat messages are the transcript without its first message, which is
\* the system message; no rendered message has the role system; every request of
\* a turn starts with the system message of the transcript.
C18_SystemMessageNeverRendered ==
    /\ [](event.kind \in {"acquired", "turn", "rerun"} =>
            /\ transcript # <<>>
            /\ transcript[1].role = "system"
            /\ event.rendered = Tail(transcript)
            /\ \A i \in DOMAIN event.rendered : event.rendered[i].role # "system")
    /\ [][event'.kind = "turn" =>
            /\ event'.sent # <<>>
            /\ \A k \in DOMAIN event'.sent :
                  /\ event'.sent[k][1] = transcript[1]
                  /\ event'.sent[k][1].role = "system"]_vars

\* Scenario C: a turn was answered and the welcome, the question and the answer show
C18_Witness ==
    /\ event.kind = "turn"
    /\ event.reply = << "Try staying calm..." >>
    /\ Len(event.rendered) = 3

\* C19: the second message is the assistant welcome; every later assistant message
\* directly follows a user message; no two assistant messages are adjacent; the
\* assistant messages after the welcome are at most as many as the user messages.
C19_RepliesFollowUserMessages ==
    transcript # <<>> =>
        /\ Len(transcript) >= 2
        /\ transcript[2].role = "assistant"
        /\ \A i \in 3..Len(transcript) :
              transcript[i].role = "assistant" => transcript[i - 1].role = "user"
        /\ \A i \in 1..(Len(transcript) - 1) :
              ~(transcript[i].role = "assistant" /\ transcript[i + 1].role = "assistant")
        /\ CountRole(transcript, "assistant") - 1 <= CountRole(transcript, "user")

\* a failed turn followed by an answered one: system, welcome, user, user, assistant
C19_Witness ==
    /\ Len(transcript) = 5
    /\ transcript[3].role = "user"
    /\ transcript[4].role = "user"
    /\ transcript[5].role = "assistant"

\* C20: whenever a client is held, form_completed is set and the transcript
\* starts with the system message and the assistant welcome message; and a chat
\* turn starts from such a state.
C20_ClientImpliesInitialisedChat ==
    /\ [](session_state.client # NoClient =>
            /\ session_state.form_completed
            /\ Len(transcript) >= 2
            /\ transcript[1].role = "system"
            /\ transcript[2] =
                  Message("assistant",
                          welcome_message(session_state.child_age,
                                          session_state.child_temperament,
                                          session_state.current_challenges)))
    /\ [][event'.kind = "turn" =>
            /\ session_state.client # NoClient
            /\ session_state.form_completed
            /\ Len(transcript) >= 2
            /\ transcript[1].role = "system"]_vars

\* a client is held and the transcript has grown past the two initial messages
C20_Witness ==
    /\ session_state.client # NoClient
    /\ Len(transcript) = 4
    /\ event.kind = "rerun"

====
